---------------------------- MODULE Spec2Model ----------------------------
(***************************************************************************)
(* Model of the fly-scan planning scripts of xray-imaging/interlaced:      *)
(*   interlaced_angles.py              bit-reversal interlaced ordering    *)
(*   detector_control.py               frame time, encoder quantization,   *)
(*                                     rotary stage velocity               *)
(*                                     and the frame rate measurement      *)
(*   blur_vs_exposure-readout_arcs.py  blur-limited speed, trigger angles  *)
(*   blur_vs_tomoscan.py               blur-limited speed (case 1)         *)
(*                                                                         *)
(* One behaviour is one run of one script.  Init picks the script (prog)   *)
(* and the values of the parameters the script hard-codes at its top, or   *)
(* receives as arguments; values read from EPICS process variables are     *)
(* drawn by the action that performs the read.                             *)
(*                                                                         *)
(* Numbers.  Reals are kept exact as integers in a fixed unit or as        *)
(* fractions <<num, den>> with den > 0:                                    *)
(*   interlaced angle       units of 2*pi/N_theta rad (360/N_theta deg)    *)
(*   detector_control time  ticks of 1e-5 s                                *)
(*   rotation step, speed   fractions of a degree, of a degree per second  *)
(*   blur scripts           fractions of a degree, a second, a pixel       *)
(* Floating-point rounding error of the Python arithmetic is not           *)
(* modelled.                                                               *)
(***************************************************************************)
EXTENDS Integers, Sequences, FiniteSets, TLC

VARIABLES prog,      \* which script runs
          pc,        \* position in the script
          outcome,   \* "running", "returned"/"finished", or the exception raised
          ang,       \* interlaced_angles.py module state
          rsv,       \* detector_control.rotary_stage_velocity arguments and locals
          cft,       \* detector_control.compute_frame_time locals
          arc,       \* blur scripts module state
          frl,       \* detector_control.frame_rate locals and return value
          ioc        \* camera IOC: ImageMode and Acquire, and the log of the
                     \* PV operations of frame_rate()

vars == <<prog, pc, outcome, ang, rsv, cft, arc, frl, ioc>>

None == "None"          \* Python None
Unbound == "unbound"    \* a module-level name not yet assigned

Abs(x) == IF x < 0 THEN -x ELSE x
Max(a, b) == IF a >= b THEN a ELSE b

RECURSIVE Pow2(_)
Pow2(e) == IF e = 0 THEN 1 ELSE 2 * Pow2(e - 1)

RECURSIVE Gcd(_, _)
Gcd(a, b) == IF b = 0 THEN a ELSE Gcd(b, a % b)

\* The fraction <<num, den>>, den > 0, in lowest terms.
Norm(f) ==
    LET g == Gcd(Abs(f[1]), f[2])
    IN  <<f[1] \div g, f[2] \div g>>

\* Floating-point results that are no number, as fractions over zero.
NaN == <<0, 0>>
Inf == <<1, 0>>

\* floor(a / b) for b > 0 and any integer a (Python //, numpy floor).
FloorDiv(a, b) == a \div b

(***************************************************************************)
(* interlaced_angles.py                                                    *)
(***************************************************************************)
MaxN == 16      \* N_theta ranges over 1..MaxN
MaxK == 8       \* K ranges over 1..MaxK

\* int(np.log2(K)) for K >= 1: the floor of the base-2 logarithm.
RECURSIVE IntLog2(_)
IntLog2(k) == IF k <= 1 THEN 0 ELSE 1 + IntLog2(k \div 2)

\* Number of binary digits Python prints for x >= 0 ('0' for 0).
RECURSIVE BinLen(_)
BinLen(x) == IF x <= 1 THEN 1 ELSE 1 + BinLen(x \div 2)

\* f'{x:0{bits}b}': the binary digits of x, most significant first,
\* zero-padded on the left to a width of at least bits (never truncated).
FormatBin(x, bits) ==
    LET w == Max(bits, BinLen(x))
    IN  [i \in 1..w |-> (x \div Pow2(w - i)) % 2]

\* b[::-1]
ReverseStr(b) == [i \in 1..Len(b) |-> b[Len(b) + 1 - i]]

\* int(b, 2)
RECURSIVE ParseBin(_)
ParseBin(b) ==
    IF Len(b) = 0 THEN 0
    ELSE 2 * ParseBin(SubSeq(b, 1, Len(b) - 1)) + b[Len(b)]

\* A bit_reverse that forgets to reverse the digit string.
BitReverseNoReverse(x, bits) == ParseBin(FormatBin(x, bits))

bit_reverse(x, bits) == ParseBin(ReverseStr(FormatBin(x, bits)))

\* A loop index that deals the events round-robin over the loops.
LoopOfRoundRobin(n, N, K) == n % K

\* (n * K // N_theta) % K
LoopOf(n, N, K) == FloorDiv(n * K, N) % K

\* A val that drops the bit-reversed loop offset.
ValNoOffset(n, N, K, bits) == n * K

\* val = n * K + bit_reverse((n * K // N_theta) % K, bits).  The script stores
\* theta = val * 2*pi / N_theta without reducing it; the model keeps val, the
\* angle in units of 2*pi/N_theta rad.
Val(n, N, K, bits) == n * K + bit_reverse(LoopOf(n, N, K), bits)

AngInit == [N_theta |-> 0, K |-> 0, bits |-> Unbound, n |-> 0,
            angles |-> << >>, loop_indices |-> << >>]

\* bits = int(np.log2(K)); angles = []; loop_indices = []
AnglesBits ==
    /\ prog = "angles" /\ pc = "bits"
    /\ ang' = [ang EXCEPT !.bits = IntLog2(ang.K)]
    /\ pc' = "loop"
    /\ UNCHANGED <<prog, outcome, rsv, cft, arc, frl, ioc>>

\* One iteration of `for n in range(N_theta)`.
AnglesLoop ==
    /\ prog = "angles" /\ pc = "loop"
    /\ ang.n < ang.N_theta
    /\ ang' = [ang EXCEPT
                 !.angles = Append(@, Val(ang.n, ang.N_theta, ang.K, ang.bits)),
                 !.loop_indices = Append(@, LoopOf(ang.n, ang.N_theta, ang.K)),
                 !.n = @ + 1]
    /\ UNCHANGED <<prog, pc, outcome, rsv, cft, arc, frl, ioc>>

\* The loop is exhausted; the lists become arrays and the script goes on to plot.
AnglesDone ==
    /\ prog = "angles" /\ pc = "loop"
    /\ ang.n = ang.N_theta
    /\ pc' = "done"
    /\ outcome' = "finished"
    /\ UNCHANGED <<prog, ang, rsv, cft, arc, frl, ioc>>

(***************************************************************************)
(* detector_control.py                                                     *)
(*                                                                         *)
(* The locals of a call are a function from the names bound so far to      *)
(* their values: a name that was never assigned is not in its domain.      *)
(***************************************************************************)
\* name = value
Bind(locals, name, value) == (name :> value) @@ locals
Bound(locals, name) == name \in DOMAIN locals

\* Values the EPICS process variables can deliver.  A PV whose IOC is down
\* delivers None.
CameraModels == {"Grasshopper3 GS3-U3-51S5M", "Oryx ORX-10G-51S5M",
                 "Oryx ORX-10G-310S9M", "Blackfly S BFS-PGE-161S7M", None}
PixelFormats == {"Mono8", "Mono12Packed", "Mono12p", "Mono16", "RGB8", None}
\* Cam1AcquireTime_RBV, when connected, in ticks of 1e-5 s (multiples of 100,
\* so that the margins 1.01, 1.05 and 1.2 are exact)
Exposures == {0, 100, 2500, 10000}
\* PSOCountsPerRotation, when connected
CountsPerRotation == {360, 1000, 3600, 5143}
\* rotation_step in degrees, as fractions <<num, den>>
RotationSteps == {<<12, 100>>, <<1, 1>>, <<-1, 1>>, <<25, 100>>, <<-25, 100>>,
                  <<5, 100>>, <<15, 100>>, <<7, 100>>, <<0, 1>>}

\* init_epics_PVs: the dictionary of PVs ("PVs") for a supported camera
\* model, None for any other.
init_epics_PVs(model) ==
    IF model \in {"Oryx ORX-10G-51S5M", "Oryx ORX-10G-310S9M"}
    THEN "PVs" ELSE None

\* The readout_times dictionaries, per camera model, in 1/100 ms (= ticks).
ReadoutTimes ==
    [camera_model \in {"Grasshopper3 GS3-U3-51S5M", "Oryx ORX-10G-51S5M",
                       "Oryx ORX-10G-310S9M"} |->
        CASE camera_model = "Grasshopper3 GS3-U3-51S5M" ->
                [Mono8 |-> 618, Mono12Packed |-> 820, Mono12p |-> 820,
                 Mono16 |-> 1234]
          [] camera_model = "Oryx ORX-10G-51S5M" ->
                [Mono8 |-> 618, Mono12Packed |-> 820, Mono16 |-> 1234]
          [] camera_model = "Oryx ORX-10G-310S9M" ->
                [Mono8 |-> 3000, Mono12Packed |-> 3000, Mono16 |-> 3000]]

\* readout_margin in percent
ReadoutMargin(camera_model) ==
    CASE camera_model = "Oryx ORX-10G-51S5M" -> 105
      [] camera_model = "Oryx ORX-10G-310S9M" -> 120
      [] OTHER -> 101

\* readout_times[pixel_format]/1000. in ticks, for a key of the dictionary
Readout(camera_model, pixel_format) ==
    ReadoutTimes[camera_model][pixel_format]

\* An unsupported-combination branch whose logger exists: it logs and
\* returns 0.
UnsupportedReturnsZero == [raises |-> None, value |-> 0]

\* `if readout is None:` branch.  The name log is not defined in the module
\* (the module imports logging), so evaluating log.error raises NameError and
\* `return 0` is never reached.
UnsupportedCombination == [raises |-> "NameError", value |-> 0]

\* .001 s in ticks
MinimumIncrement == 100

\* A frame time that falls back to the bare readout time.
FrameTimeNoIncrement(exposure, readout_margin, readout) ==
    LET frame_time == (exposure * readout_margin) \div 100
    IN  IF frame_time < readout THEN readout ELSE frame_time

\* A frame time that adds the increment also when exposure * margin equals
\* the readout time.
FrameTimeLeq(exposure, readout_margin, readout) ==
    LET frame_time == (exposure * readout_margin) \div 100
    IN  IF frame_time <= readout THEN readout + MinimumIncrement ELSE frame_time

\* frame_time = exposure * readout_margin
\* if frame_time < readout: frame_time = readout + .001
FrameTime(exposure, readout_margin, readout) ==
    LET frame_time == (exposure * readout_margin) \div 100
    IN  IF frame_time < readout THEN readout + MinimumIncrement ELSE frame_time

\* A round that takes a tie away from zero.
RoundHalfAway(x) ==
    LET fl == FloorDiv(x[1], x[2])
        twice == 2 * (x[1] - fl * x[2])
    IN  IF twice < x[2] THEN fl
        ELSE IF twice > x[2] THEN fl + 1
        ELSE IF fl >= 0 THEN fl + 1 ELSE fl

\* Python 3 round(x) of the fraction x = <<num, den>>, den > 0: the nearest
\* integer, a tie going to the even neighbour.
Round(x) ==
    LET fl == FloorDiv(x[1], x[2])
        twice == 2 * (x[1] - fl * x[2])
    IN  IF twice < x[2] THEN fl
        ELSE IF twice > x[2] THEN fl + 1
        ELSE IF fl % 2 = 0 THEN fl ELSE fl + 1

\* encoder_multiply = float(counts_per_rotation) / 360.
EncoderMultiply(counts) == <<counts, 360>>

\* raw_delta_encoder_counts = rotation_step * encoder_multiply
RawDeltaEncoderCounts(rotation_step, encoder_multiply) ==
    <<rotation_step[1] * encoder_multiply[1], rotation_step[2] * encoder_multiply[2]>>

\* abs(raw_delta_encoder_counts - delta_encoder_counts) > 1e-4
NonIntegerCounts(raw, delta) == Abs(raw[1] - delta * raw[2]) * 10000 > raw[2]

\* A new step that multiplies by the encoder factor instead of dividing.
NewRotationStepMultiplied(delta, encoder_multiply) ==
    <<delta * encoder_multiply[1], encoder_multiply[2]>>

\* new_rotation_step = delta_encoder_counts / encoder_multiply
NewRotationStep(delta, encoder_multiply) ==
    <<delta * encoder_multiply[2], encoder_multiply[1]>>

\* rotation_start + num_angles * step
RotationStop(rotation_start, num_angles, step) ==
    <<rotation_start * step[2] + num_angles * step[1], step[2]>>

\* motor_speed = np.abs(new_rotation_step) / time_per_angle_step in deg/s, the
\* time in ticks.  numpy division by zero gives inf (nan for 0/0).
MotorSpeed(step, time_per_angle_step) ==
    IF time_per_angle_step = 0
    THEN IF step[1] = 0 THEN NaN ELSE Inf
    ELSE Norm(<<Abs(step[1]) * 100000, step[2] * time_per_angle_step>>)

\* The arguments of rotary_stage_velocity; its other locals are bound as the
\* call proceeds.
RsvInit == [rotation_start |-> 0, rotation_step |-> <<0, 1>>, num_angles |-> 0]

\* compute_frame_time has no arguments.
CftInit == [detector_prefix |-> "2bmSP1:"]

\* An exception propagates out of the call.
Raise(exc) == pc' = "done" /\ outcome' = exc

\* rotary_stage_velocity: epics_PVs = init_epics_PVs(detector_prefix)
RsvInitPVs ==
    /\ prog = "velocity" /\ pc = "rsv_init"
    /\ \E model \in CameraModels :
          rsv' = Bind(rsv, "epics_PVs", init_epics_PVs(model))
    /\ pc' = "rsv_quantize"
    /\ UNCHANGED <<prog, outcome, ang, cft, arc, frl, ioc>>

\* The locals after the encoder-count quantization of the step.
Quantized(locals, counts) ==
    LET mult == EncoderMultiply(counts)
        raw == RawDeltaEncoderCounts(locals.rotation_step, mult)
        delta == Round(raw)
        new == NewRotationStep(delta, mult)
        l1 == Bind(Bind(Bind(locals, "encoder_multiply", mult),
                        "raw_delta_encoder_counts", raw),
                   "delta_encoder_counts", delta)
    IN  IF NonIntegerCounts(raw, delta)
        THEN Bind(Bind(Bind(l1, "new_rotation_step", new),
                       "rotation_stop",
                       RotationStop(locals.rotation_start, locals.num_angles,
                                    locals.rotation_step)),
                  "new_rotation_stop",
                  RotationStop(locals.rotation_start, locals.num_angles, new))
        ELSE l1

\* rotary_stage_velocity, the encoder-count quantization of the step.
RsvQuantize ==
    /\ prog = "velocity" /\ pc = "rsv_quantize"
    /\ \/ \* None['PSOCountsPerRotation']
          /\ rsv.epics_PVs = None
          /\ Raise("TypeError")
          /\ UNCHANGED rsv
       \/ \* float(None): the PV is not connected
          /\ rsv.epics_PVs # None
          /\ Raise("TypeError")
          /\ UNCHANGED rsv
       \/ /\ rsv.epics_PVs # None
          /\ \E counts \in CountsPerRotation : rsv' = Quantized(rsv, counts)
          /\ pc' = "cft_init"
          /\ UNCHANGED outcome
    /\ UNCHANGED <<prog, ang, cft, arc, frl, ioc>>

\* compute_frame_time: epics_PVs = init_epics_PVs(detector_prefix)
CftInitPVs ==
    /\ prog = "velocity" /\ pc = "cft_init"
    /\ \E model \in CameraModels :
          cft' = Bind(cft, "epics_PVs", init_epics_PVs(model))
    /\ pc' = "cft_readout"
    /\ UNCHANGED <<prog, outcome, ang, rsv, arc, frl, ioc>>

\* compute_frame_time: the readout time and margin of the camera model and
\* pixel format.
CftReadout ==
    /\ prog = "velocity" /\ pc = "cft_readout"
    /\ \/ \* None['CamModel']
          /\ cft.epics_PVs = None
          /\ Raise("TypeError")
          /\ UNCHANGED <<cft, rsv>>
       \/ /\ cft.epics_PVs # None
          /\ \E camera_model \in CameraModels, pixel_format \in PixelFormats :
               LET l1 == Bind(Bind(Bind(Bind(cft, "camera_model", camera_model),
                                        "readout", None),
                                   "video_mode", None),
                              "readout_margin", ReadoutMargin(camera_model))
                   l2 == Bind(l1, "pixel_format", pixel_format)
               IN  IF camera_model \notin DOMAIN ReadoutTimes
                   THEN \* no branch matched: readout is None
                        /\ cft' = l1
                        /\ IF UnsupportedCombination.raises # None
                           THEN /\ Raise(UnsupportedCombination.raises)
                                /\ UNCHANGED rsv
                           ELSE \* return 0
                                /\ rsv' = Bind(rsv, "time_per_angle_step",
                                               UnsupportedCombination.value)
                                /\ pc' = "rsv_speed"
                                /\ UNCHANGED outcome
                   ELSE IF pixel_format \notin DOMAIN ReadoutTimes[camera_model]
                   THEN /\ cft' = l2
                        /\ Raise("KeyError")
                        /\ UNCHANGED rsv
                   ELSE /\ cft' = [l2 EXCEPT !.readout =
                                      Readout(camera_model, pixel_format)]
                        /\ pc' = "cft_frame_time"
                        /\ UNCHANGED <<outcome, rsv>>
    /\ UNCHANGED <<prog, ang, arc, frl, ioc>>

\* compute_frame_time: the frame time from the exposure read back, returned
\* into time_per_angle_step.
CftFrameTime ==
    /\ prog = "velocity" /\ pc = "cft_frame_time"
    /\ \/ \* the PV is not connected: None * readout_margin
          /\ cft' = Bind(cft, "exposure", None)
          /\ Raise("TypeError")
          /\ UNCHANGED rsv
       \/ \E exposure \in Exposures :
             LET frame_time == FrameTime(exposure, cft.readout_margin, cft.readout)
             IN  /\ cft' = Bind(Bind(cft, "exposure", exposure),
                                "frame_time", frame_time)
                 /\ rsv' = Bind(rsv, "time_per_angle_step", frame_time)
                 /\ pc' = "rsv_speed"
                 /\ UNCHANGED outcome
    /\ UNCHANGED <<prog, ang, arc, frl, ioc>>

\* rotary_stage_velocity: motor_speed from new_rotation_step, which is
\* assigned only inside the non-integer-counts branch.
RsvSpeed ==
    /\ prog = "velocity" /\ pc = "rsv_speed"
    /\ IF ~Bound(rsv, "new_rotation_step")
       THEN /\ Raise("UnboundLocalError")
            /\ UNCHANGED rsv
       ELSE /\ rsv' = Bind(rsv, "motor_speed",
                           MotorSpeed(rsv.new_rotation_step, rsv.time_per_angle_step))
            /\ pc' = "done"
            /\ outcome' = "returned"
    /\ UNCHANGED <<prog, ang, cft, arc, frl, ioc>>

(***************************************************************************)
(* detector_control.frame_rate                                             *)
(***************************************************************************)
\* Cam1SerialNumber, when connected
SerialNumbers == {"18285284", "Unknown"}
\* areaDetector ImageMode: Single, Multiple, Continuous
ImageModes == {0, 1, 2}
Continuous == 2
\* ArrayRate_RBV in Hz, when connected; frame_rate() only logs and returns it,
\* so a rate is kept as its text
ArrayRates == {"0.00", "16.02", "160.50"}

FrInit == [detector_prefix |-> "2bmSP1:"]
IocInit == [ImageMode |-> 0, Acquire |-> 0, log |-> <<>>]

\* PV(...).get(): the read is logged
Get(ioc0, pv) == [ioc0 EXCEPT !.log = Append(@, <<"get", pv>>)]

\* epics_PVs['Cam1ImageMode'].put(value, wait=True)
PutImageMode(ioc0, value) ==
    [ioc0 EXCEPT !.ImageMode = value,
                 !.log = Append(@, <<"put", "Cam1ImageMode", value>>)]

\* epics_PVs['Cam1Acquire'].put(value)
PutAcquire(ioc0, value) ==
    [ioc0 EXCEPT !.Acquire = value,
                 !.log = Append(@, <<"put", "Cam1Acquire", value>>)]

\* A logging call that lets the formatting error of a None rate propagate.
LoggingInfoPropagates(fr) ==
    IF fr = None THEN [raises |-> "TypeError", stderr |-> None]
    ELSE [raises |-> None, stderr |-> None]

\* logging.info('Measured frame rate: %.2f Hz', fr): a rate of None cannot
\* be formatted with %.2f; the logging module reports the TypeError on
\* stderr and returns.
LoggingInfo(fr) ==
    IF fr = None THEN [raises |-> None, stderr |-> "TypeError"]
    ELSE [raises |-> None, stderr |-> None]

\* return value: the frame ends
Return(locals, value) ==
    /\ frl' = Bind(locals, "return", value)
    /\ pc' = "done"
    /\ outcome' = "returned"

\* epics_PVs = init_epics_PVs(detector_prefix); if epics_PVs is None: return None
FrInitPVs ==
    /\ prog = "frame_rate" /\ pc = "fr_init"
    /\ ioc' = Get(Get(ioc, "CamManufacturer_RBV"), "CamModel")
    /\ \E model \in CameraModels :
          IF init_epics_PVs(model) = None
          THEN Return(Bind(frl, "epics_PVs", None), None)
          ELSE /\ frl' = Bind(frl, "epics_PVs", init_epics_PVs(model))
               /\ pc' = "fr_serial"
               /\ UNCHANGED outcome
    /\ UNCHANGED <<prog, ang, rsv, cft, arc>>

\* detector_sn = epics_PVs['Cam1SerialNumber'].get()
\* if detector_sn in (None, 'Unknown'): return None
FrSerialNumber ==
    /\ prog = "frame_rate" /\ pc = "fr_serial"
    /\ ioc' = Get(ioc, "Cam1SerialNumber")
    /\ \E detector_sn \in SerialNumbers \cup {None} :
          IF detector_sn \in {None, "Unknown"}
          THEN Return(Bind(frl, "detector_sn", detector_sn), None)
          ELSE /\ frl' = Bind(frl, "detector_sn", detector_sn)
               /\ pc' = "fr_mode"
               /\ UNCHANGED outcome
    /\ UNCHANGED <<prog, ang, rsv, cft, arc>>

\* epics_PVs['Cam1ImageMode'].put(2, wait=True); the mode is read back for
\* the log message
FrImageMode ==
    /\ prog = "frame_rate" /\ pc = "fr_mode"
    /\ ioc' = Get(PutImageMode(ioc, Continuous), "Cam1ImageMode")
    /\ pc' = "fr_acquire"
    /\ UNCHANGED <<prog, outcome, ang, rsv, cft, arc, frl>>

\* epics_PVs['Cam1Acquire'].put(1); time.sleep(3)
FrAcquire ==
    /\ prog = "frame_rate" /\ pc = "fr_acquire"
    /\ ioc' = PutAcquire(ioc, 1)
    /\ pc' = "fr_measure"
    /\ UNCHANGED <<prog, outcome, ang, rsv, cft, arc, frl>>

\* fr = epics_PVs['ArrayRate_RBV'].get(); logging.info(..., fr)
FrMeasure ==
    /\ prog = "frame_rate" /\ pc = "fr_measure"
    /\ ioc' = Get(ioc, "ArrayRate_RBV")
    /\ \E fr \in ArrayRates \cup {None} :
          /\ frl' = Bind(frl, "fr", fr)
          /\ IF LoggingInfo(fr).raises # None
             THEN Raise(LoggingInfo(fr).raises)
             ELSE pc' = "fr_stop" /\ UNCHANGED outcome
    /\ UNCHANGED <<prog, ang, rsv, cft, arc>>

\* epics_PVs['Cam1Acquire'].put(0); return fr
FrStop ==
    /\ prog = "frame_rate" /\ pc = "fr_stop"
    /\ ioc' = PutAcquire(ioc, 0)
    /\ Return(frl, frl.fr)
    /\ UNCHANGED <<prog, ang, rsv, cft, arc>>

(***************************************************************************)
(* blur_vs_exposure-readout_arcs.py and blur_vs_tomoscan.py (case 1)       *)
(*                                                                         *)
(* Angles are fractions of a degree, times fractions of a second, all      *)
(* non-negative.  nan propagates through the arithmetic as in numpy.       *)
(***************************************************************************)
\* a * b (common factors are cancelled before multiplying)
FMul(a, b) ==
    IF a = NaN \/ b = NaN THEN NaN
    ELSE LET x == Norm(<<a[1], b[2]>>)
             y == Norm(<<b[1], a[2]>>)
         IN  <<x[1] * y[1], x[2] * y[2]>>

\* a / b; x / 0 is inf, 0 / 0 is nan
FDiv(a, b) ==
    IF a = NaN \/ b = NaN THEN NaN
    ELSE IF b[1] = 0 THEN (IF a[1] = 0 THEN NaN ELSE Inf)
    ELSE FMul(a, <<b[2], b[1]>>)

\* a + b
FAdd(a, b) ==
    IF a = NaN \/ b = NaN THEN NaN
    ELSE LET g == Gcd(a[2], b[2])
         IN  Norm(<<a[1] * (b[2] \div g) + b[1] * (a[2] \div g),
                    (a[2] \div g) * b[2]>>)

\* Parameters at the top of the scripts.
DetectorSizes == {2048}
\* set_blur in pixels: the scripts' 3, fractions of the detector radius 1024,
\* and 2.1 * radius.
SetBlurs == {<<0, 1>>, <<3, 1>>, <<512, 1>>, <<1024, 1>>, <<1536, 1>>,
             <<2048, 1>>, <<21504, 10>>}
\* frame_rate_with_zero_exposure_time in Hz
FrameRates == {1, 2, 10, 16}
\* exposure_times in 1/100 s: np.arange(0.05, 0.5, 0.05) and shorter arrays
ExposureTimeArrays == {<<5, 10, 15, 20, 25, 30, 35, 40, 45>>,
                       <<5>>, <<25>>, <<50>>}

\* np.degrees(2*np.arcsin(x)) in degrees at the arguments the parameters
\* produce (irrational values rounded to 1e-3 degree or finer); nan, with a
\* RuntimeWarning and no exception, for x > 1.
DegTwoArcsin(x) ==
    IF x[1] > x[2] THEN NaN
    ELSE CASE Norm(x) = <<0, 1>> -> <<0, 1>>
           [] Norm(x) = <<3, 2048>> -> Norm(<<16786, 100000>>)
           [] Norm(x) = <<1, 4>> -> Norm(<<28955, 1000>>)
           [] Norm(x) = <<1, 2>> -> <<60, 1>>
           [] Norm(x) = <<3, 4>> -> Norm(<<97181, 1000>>)
           [] Norm(x) = <<1, 1>> -> <<180, 1>>

\* theta_exposure_time = np.degrees(2*np.arcsin((set_blur/(2*r))))
ThetaExposureTime(set_blur, r) ==
    DegTwoArcsin(FDiv(set_blur, FMul(<<2, 1>>, r)))

\* speeds = theta_exposure_time / exposure_times
Speeds(theta, exposure_times) ==
    [i \in 1..Len(exposure_times) |-> FDiv(theta, <<exposure_times[i], 100>>)]

\* The target sweep of the scripts, in degrees.
Sweep == 180

\* int(x) of a float: its value, or the exception for inf and nan.  The
\* floats here are already floored.
IntOf(x) ==
    IF x = NaN THEN [raises |-> "ValueError: cannot convert float NaN to integer",
                     value |-> 0]
    ELSE IF x = Inf THEN [raises |-> "OverflowError", value |-> 0]
    ELSE [raises |-> None, value |-> x[1] \div x[2]]

\* np.floor of a non-negative float
Floor(x) == IF x[2] = 0 THEN x ELSE <<x[1] \div x[2], 1>>

\* A frame count that also refuses a single frame.
NoFramesFitStrict(n_frames) == n_frames <= 1

\* if n_frames < 1
NoFramesFit(n_frames) == n_frames < 1

\* The module globals after lines 5-20 (5-34 of blur_vs_tomoscan.py).
BlurModel(g) ==
    LET r == FDiv(<<g.detector_x_size, 1>>, <<2, 1>>)
        theta == ThetaExposureTime(g.set_blur, r)
    IN  Bind(Bind(Bind(Bind(g, "r", r),
                       "readout_time", <<1, g.frame_rate_with_zero_exposure_time>>),
                  "theta_exposure_time", theta),
             "speeds", Speeds(theta, g.exposure_times))

\* theta_readouts, theta_per_frame, frames_per_180deg
PerFrame(g) ==
    LET theta_readouts ==
            [i \in 1..Len(g.speeds) |-> FMul(g.speeds[i], g.readout_time)]
        theta_per_frame ==
            [i \in 1..Len(g.speeds) |-> FAdd(g.theta_exposure_time, theta_readouts[i])]
    IN  Bind(Bind(Bind(g, "theta_readouts", theta_readouts),
                  "theta_per_frame", theta_per_frame),
             "frames_per_180deg",
             [i \in 1..Len(g.speeds) |-> FDiv(<<Sweep, 1>>, theta_per_frame[i])])

ArcInit == [detector_x_size |-> 0, set_blur |-> <<0, 1>>,
            frame_rate_with_zero_exposure_time |-> 1, exposure_times |-> << >>]

\* blur_vs_exposure-readout_arcs.py: blur-limited speed
ArcsBlur ==
    /\ prog = "arcs" /\ pc = "blur"
    /\ arc' = BlurModel(arc)
    /\ pc' = "per_frame"
    /\ UNCHANGED <<prog, outcome, ang, rsv, cft, frl, ioc>>

\* angular step and frames per 180 degrees, per exposure time
ArcsPerFrame ==
    /\ prog = "arcs" /\ pc = "per_frame"
    /\ arc' = PerFrame(arc)
    /\ pc' = "step"
    /\ UNCHANGED <<prog, outcome, ang, rsv, cft, frl, ioc>>

\* the angular step between triggers at exposure_times[i_plot], i_plot = -1
ArcsStep ==
    /\ prog = "arcs" /\ pc = "step"
    /\ LET i_plot == Len(arc.exposure_times)
           exp_time == <<arc.exposure_times[i_plot], 100>>
           omega_max == arc.speeds[i_plot]
           exposure_arc_deg == FMul(omega_max, exp_time)
           readout_arc_deg == FMul(omega_max, arc.readout_time)
       IN  arc' = Bind(Bind(Bind(Bind(Bind(arc, "exp_time", exp_time),
                                      "omega_max", omega_max),
                                 "exposure_arc_deg", exposure_arc_deg),
                            "readout_arc_deg", readout_arc_deg),
                       "delta_theta", FAdd(exposure_arc_deg, readout_arc_deg))
    /\ pc' = "frames"
    /\ UNCHANGED <<prog, outcome, ang, rsv, cft, frl, ioc>>

\* n_frames = int(np.floor(180.0 / delta_theta)); raise if n_frames < 1
ArcsFrames ==
    /\ prog = "arcs" /\ pc = "frames"
    /\ LET n == IntOf(Floor(FDiv(<<Sweep, 1>>, arc.delta_theta)))
       IN  IF n.raises # None
           THEN /\ Raise(n.raises)
                /\ UNCHANGED arc
           ELSE /\ arc' = Bind(arc, "n_frames", n.value)
                /\ IF NoFramesFit(n.value)
                   THEN Raise("ValueError: No frames fit in 180")
                   ELSE pc' = "triggers" /\ UNCHANGED outcome
    /\ UNCHANGED <<prog, ang, rsv, cft, frl, ioc>>

\* trigger_angles_deg = np.arange(0, n_frames) * delta_theta
ArcsTriggers ==
    /\ prog = "arcs" /\ pc = "triggers"
    /\ arc' = Bind(arc, "trigger_angles_deg",
                   [k \in 1..arc.n_frames |-> FMul(<<k - 1, 1>>, arc.delta_theta)])
    /\ pc' = "done"
    /\ outcome' = "finished"
    /\ UNCHANGED <<prog, ang, rsv, cft, frl, ioc>>

\* blur_vs_tomoscan.py, case 1: blur-limited speed
TomoBlur ==
    /\ prog = "tomoscan" /\ pc = "blur"
    /\ arc' = BlurModel(arc)
    /\ pc' = "per_frame"
    /\ UNCHANGED <<prog, outcome, ang, rsv, cft, frl, ioc>>

\* blur_vs_tomoscan.py, case 1: frames per 180 degrees
TomoPerFrame ==
    /\ prog = "tomoscan" /\ pc = "per_frame"
    /\ arc' = PerFrame(arc)
    /\ pc' = "annotate"
    /\ UNCHANGED <<prog, outcome, ang, rsv, cft, frl, ioc>>

\* blur_vs_tomoscan.py: int(frames_per_180deg[i]) for the annotated indices
\* 0, len//2, -1; the first conversion that fails ends the script.
TomoAnnotate ==
    /\ prog = "tomoscan" /\ pc = "annotate"
    /\ LET n == Len(arc.exposure_times)
           indices == <<1, (n \div 2) + 1, n>>
           conv == [j \in 1..3 |-> IntOf(Floor(arc.frames_per_180deg[indices[j]]))]
           failed == {j \in 1..3 : conv[j].raises # None}
       IN  IF failed # {}
           THEN Raise(conv[CHOOSE j \in failed : \A k \in failed : j <= k].raises)
           ELSE pc' = "done" /\ outcome' = "finished"
    /\ UNCHANGED <<prog, ang, rsv, cft, arc, frl, ioc>>

(***************************************************************************)
(* Specification                                                           *)
(***************************************************************************)
InitAngles ==
    /\ prog = "angles" /\ pc = "bits" /\ outcome = "running"
    /\ \E N \in 1..MaxN, K \in 1..MaxK :
          ang = [AngInit EXCEPT !.N_theta = N, !.K = K]
    /\ rsv = RsvInit /\ cft = CftInit /\ arc = ArcInit
    /\ frl = FrInit /\ ioc = IocInit

\* rotary_stage_velocity(rotation_start, rotation_step, num_angles)
InitVelocity ==
    /\ prog = "velocity" /\ pc = "rsv_init" /\ outcome = "running"
    /\ \E step \in RotationSteps :
          rsv = [RsvInit EXCEPT !.rotation_step = step, !.num_angles = 1500]
    /\ ang = AngInit /\ cft = CftInit /\ arc = ArcInit
    /\ frl = FrInit /\ ioc = IocInit

\* The parameters at the top of a blur script.
InitBlur ==
    /\ prog \in {"arcs", "tomoscan"} /\ pc = "blur" /\ outcome = "running"
    /\ \E size \in DetectorSizes, blur \in SetBlurs, rate \in FrameRates,
          times \in ExposureTimeArrays :
          arc = [detector_x_size |-> size, set_blur |-> blur,
                 frame_rate_with_zero_exposure_time |-> rate,
                 exposure_times |-> times]
    /\ ang = AngInit /\ rsv = RsvInit /\ cft = CftInit
    /\ frl = FrInit /\ ioc = IocInit

\* frame_rate(): the camera may be in any image mode, idle or acquiring.
InitFrameRate ==
    /\ prog = "frame_rate" /\ pc = "fr_init" /\ outcome = "running"
    /\ frl = FrInit
    /\ \E mode \in ImageModes, acquire \in {0, 1} :
          ioc = [IocInit EXCEPT !.ImageMode = mode, !.Acquire = acquire]
    /\ ang = AngInit /\ rsv = RsvInit /\ cft = CftInit /\ arc = ArcInit

Init == InitAngles \/ InitVelocity \/ InitBlur \/ InitFrameRate

Next ==
    \/ AnglesBits
    \/ AnglesLoop
    \/ AnglesDone
    \/ RsvInitPVs
    \/ RsvQuantize
    \/ CftInitPVs
    \/ CftReadout
    \/ CftFrameTime
    \/ RsvSpeed
    \/ FrInitPVs
    \/ FrSerialNumber
    \/ FrImageMode
    \/ FrAcquire
    \/ FrMeasure
    \/ FrStop
    \/ ArcsBlur
    \/ ArcsPerFrame
    \/ ArcsStep
    \/ ArcsFrames
    \/ ArcsTriggers
    \/ TomoBlur
    \/ TomoPerFrame
    \/ TomoAnnotate

Spec == Init /\ [][Next]_vars

(***************************************************************************)
(* Properties of the interlaced schedule                                   *)
(***************************************************************************)
\* Reversal of the `bits` low-order binary digits of x, by arithmetic.
RECURSIVE RevBits(_, _)
RevBits(x, bits) ==
    IF bits = 0 THEN 0
    ELSE (x % 2) * Pow2(bits - 1) + RevBits(x \div 2, bits - 1)

IsPow2(k) == \E e \in 0..k : Pow2(e) = k

\* log2 of a power of two
Log2Exact(k) == CHOOSE e \in 0..k : Pow2(e) = k

\* K a power of two dividing N
ValidNK(N, K) == IsPow2(K) /\ N % K = 0

AngValid == prog = "angles" /\ ValidNK(ang.N_theta, ang.K)

\* Indices (in time order, from 0) of the events emitted so far.
Emitted == 0..(Len(ang.angles) - 1)

\* The slot the claim names for index n: (n*K + bit_reverse(loop, log2 K)).
ClaimLoop(n) == FloorDiv(n * ang.K, ang.N_theta) % ang.K
ClaimVal(n) == n * ang.K + RevBits(ClaimLoop(n), Log2Exact(ang.K))

\* The emitted angle of index n in degrees, times N_theta (theta in rad is
\* angles[n] * 2*pi / N_theta).
DegTimesN(n) == ang.angles[n + 1] * 360

IsLiteral == prog = "angles" /\ ang.N_theta = 8 /\ ang.K = 2 /\ pc = "done"

\* C1 as stated: for valid (N, K) every emitted event n has
\* loop_id = floor(n*K/N) mod K and angle_deg = ((n*K + bit_reverse(loop_id))
\* mod N) * 360/N; N=8, K=2 gives [0,90,180,270,45,135,225,315] degrees.
C1_AsStated ==
    AngValid =>
       /\ \A n \in Emitted :
             /\ ang.loop_indices[n + 1] = ClaimLoop(n)
             /\ DegTimesN(n) = (ClaimVal(n) % ang.N_theta) * 360
       /\ IsLiteral =>
             [i \in 1..8 |-> ang.angles[i] * 45]
                = <<0, 90, 180, 270, 45, 135, 225, 315>>

\* C1 amended: for valid (N, K) every emitted event n has
\* loop_id = floor(n*K/N) mod K and the unreduced angle
\* (n*K + bit_reverse(loop_id)) * 360/N degrees, which is congruent modulo 360
\* to ((n*K + bit_reverse(loop_id)) mod N) * 360/N; N=8, K=2 gives
\* [0,90,180,270,405,495,585,675] degrees, i.e. [0,90,180,270,45,135,225,315]
\* modulo 360, with loop_id sequence [0,0,0,0,1,1,1,1].
C1_Unreduced ==
    AngValid =>
       /\ Len(ang.loop_indices) = Len(ang.angles)
       /\ \A n \in Emitted :
             /\ ang.loop_indices[n + 1] = ClaimLoop(n)
             /\ DegTimesN(n) = ClaimVal(n) * 360
             /\ DegTimesN(n) % (360 * ang.N_theta)
                   = (ClaimVal(n) % ang.N_theta) * 360
       /\ IsLiteral =>
             /\ [i \in 1..8 |-> ang.angles[i] * 45]
                   = <<0, 90, 180, 270, 405, 495, 585, 675>>
             /\ [i \in 1..8 |-> (ang.angles[i] * 45) % 360]
                   = <<0, 90, 180, 270, 45, 135, 225, 315>>
             /\ ang.loop_indices = <<0, 0, 0, 0, 1, 1, 1, 1>>

\* A finished schedule with four loops, and the literal case finished.
C1_Witness ==
    /\ AngValid /\ pc = "done"
    /\ \/ ang.K = 4 /\ ang.N_theta = 16 /\ ang.angles[16] = 63
       \/ IsLiteral /\ ang.angles[5] = 9

\* C2: for valid (N, K) the N events of a finished schedule visit N pairwise
\* distinct angles modulo 360 degrees: n -> angle slot mod N is a bijection on
\* 0..N-1, no position acquired twice and none missed.
C2_Bijection ==
    (AngValid /\ pc = "done") =>
       /\ Len(ang.angles) = ang.N_theta
       /\ \A i, j \in 1..Len(ang.angles) :
             i # j => ang.angles[i] % ang.N_theta # ang.angles[j] % ang.N_theta
       /\ {ang.angles[i] % ang.N_theta : i \in 1..Len(ang.angles)}
             = 0..(ang.N_theta - 1)

C2_Witness ==
    /\ AngValid /\ pc = "done" /\ ang.K = 4 /\ ang.N_theta = 12
    /\ Len(ang.angles) = 12

\* C3: for valid (N, K) the events of loop l are exactly the indices
\* l*(N/K) .. (l+1)*(N/K)-1, the j-th event of loop l is at slot
\* j*K + bit_reverse(l); consecutive events of one loop are K slots apart,
\* loop 0 visits the multiples of K in increasing order, and the loops'
\* offsets are the bit-reversal permutation of 0..K-1.
C3_LoopStructure ==
    AngValid =>
       LET N == ang.N_theta
           K == ang.K
           per == N \div K
           slot(n) == ang.angles[n + 1] % N
       IN  /\ \A n \in Emitted : \A l \in 0..(K - 1) :
                 ang.loop_indices[n + 1] = l
                    <=> n \in (l * per)..((l + 1) * per - 1)
           /\ \A n \in Emitted :
                 LET l == ang.loop_indices[n + 1]
                     j == n - l * per
                 IN  /\ j \in 0..(per - 1)
                     /\ slot(n) = j * K + RevBits(l, Log2Exact(K))
           /\ \A n \in Emitted :
                 (n + 1 \in Emitted
                    /\ ang.loop_indices[n + 1] = ang.loop_indices[n + 2])
                    => slot(n + 1) - slot(n) = K
           /\ \A n \in Emitted : n < per => slot(n) = n * K
           /\ pc = "done" =>
                 /\ {slot(l * per) : l \in 0..(K - 1)} = 0..(K - 1)
                 /\ \A l \in 0..(K - 1) :
                       slot(l * per) = RevBits(l, Log2Exact(K))

C3_Witness ==
    /\ AngValid /\ pc = "done" /\ ang.K = 8 /\ ang.N_theta = 16
    /\ ang.loop_indices[3] = 1 /\ ang.angles[3] % 16 = 4

\* C4 as stated: an (N, K) with K not dividing N or K not a power of two is
\* rejected with a DegenerateScheduleError and no angle is produced for it.
C4_Rejects ==
    (prog = "angles" /\ ~ValidNK(ang.N_theta, ang.K)) =>
       /\ ang.angles = << >>
       /\ pc = "done" => outcome = "DegenerateScheduleError"

(***************************************************************************)
(* Properties of the velocity planning call                                *)
(***************************************************************************)
\* The fraction f is within 1e-4 of an integer.
NearInteger(f) ==
    LET g == Norm(f)
        fl == FloorDiv(g[1], g[2])
        below == g[1] - fl * g[2]
    IN  below * 10000 <= g[2] \/ (g[2] - below) * 10000 <= g[2]

\* a * b for fractions
FracMul(a, b) == <<a[1] * b[1], a[2] * b[2]>>

\* The quantization has run.
RsvQuantized == prog = "velocity" /\ Bound(rsv, "delta_encoder_counts")

\* |raw_counts - rounded_counts| > 1e-4
RsvAdjusted ==
    LET raw == rsv.raw_delta_encoder_counts
    IN  Abs(raw[1] - rsv.delta_encoder_counts * raw[2]) * 10000 > raw[2]

\* actual_step of the claim: rounded_counts / counts_per_degree when adjusted,
\* the requested step otherwise.
ActualStep ==
    IF RsvAdjusted
    THEN <<rsv.delta_encoder_counts * 360, rsv.encoder_multiply[1]>>
    ELSE rsv.rotation_step

\* C5 as stated: once the step is quantized and a frame time is known, the
\* velocity planning call completes and returns |actual_step| / frame_time,
\* also when the requested step needed no adjustment.
C5_VelocityReturned ==
    (RsvQuantized /\ Bound(rsv, "time_per_angle_step") /\ pc = "done") =>
       /\ outcome = "returned"
       /\ Bound(rsv, "motor_speed")
       /\ rsv.motor_speed =
             Norm(<<Abs(ActualStep[1]) * 100000,
                    ActualStep[2] * rsv.time_per_angle_step>>)

\* C6: the step the quantizer goes on with (new_rotation_step when the step
\* was adjusted, the requested rotation_step when it was not) times
\* counts_per_degree is within 1e-4 of an integer.
C6_RoundTrip ==
    RsvQuantized =>
       /\ Bound(rsv, "new_rotation_step") <=> RsvAdjusted
       /\ Bound(rsv, "new_rotation_step") =>
             NearInteger(FracMul(rsv.new_rotation_step, rsv.encoder_multiply))
       /\ ~Bound(rsv, "new_rotation_step") =>
             NearInteger(FracMul(rsv.rotation_step, rsv.encoder_multiply))

\* An adjusted step (0.25 degree at 1000 counts per rotation) on a call that
\* returned.
C6_Witness ==
    /\ RsvQuantized /\ outcome = "returned"
    /\ rsv.rotation_step = <<25, 100>> /\ rsv.encoder_multiply = <<1000, 360>>
    /\ rsv.delta_encoder_counts = 1
    /\ Norm(rsv.new_rotation_step) = <<9, 25>>

\* C7: compute_frame_time returns exposure * margin when that is at least the
\* readout time and readout + 1 ms when it is less; with exposure 0 the result
\* is readout + 1 ms (0.0635 s for a readout of 0.0625 s) for every margin.
C7_FrameTimeFloor ==
    /\ (prog = "velocity" /\ Bound(cft, "frame_time")) =>
          LET e == cft.exposure
              m == cft.readout_margin
              R == cft.readout
          IN  /\ e * m >= 100 * R => 100 * cft.frame_time = e * m
              /\ e * m < 100 * R => cft.frame_time = R + 100
              /\ e = 0 => cft.frame_time = R + 100
              /\ rsv.time_per_angle_step = cft.frame_time
    /\ \A m \in {101, 105, 120} : FrameTime(0, m, 6250) = 6350

C7_Witness ==
    /\ prog = "velocity" /\ Bound(cft, "frame_time")
    /\ cft.exposure = 0 /\ cft.readout = 1234
    /\ cft.frame_time = 1334

\* The camera model and pixel format read by compute_frame_time have an entry
\* in the readout tables.
ReadoutKnown ==
    /\ Bound(cft, "camera_model")
    /\ cft.camera_model \in DOMAIN ReadoutTimes
    /\ Bound(cft, "pixel_format")
    /\ cft.pixel_format \in DOMAIN ReadoutTimes[cft.camera_model]

\* C8: when no readout time is known for the camera model / pixel format read,
\* compute_frame_time ends in an exception that reaches the caller; no frame
\* time (0 or other) is returned and rotary_stage_velocity computes no
\* velocity.  A frame time that is returned is positive and comes from a known
\* readout time.
C8_NoDefaultFrameTime ==
    prog = "velocity" =>
       /\ (Bound(cft, "camera_model") /\ ~ReadoutKnown) =>
             /\ pc = "done"
             /\ outcome \in {"KeyError", "NameError"}
             /\ ~Bound(cft, "frame_time")
             /\ ~Bound(rsv, "time_per_angle_step")
             /\ ~Bound(rsv, "motor_speed")
       /\ Bound(rsv, "time_per_angle_step") =>
             /\ ReadoutKnown
             /\ rsv.time_per_angle_step > 0
       /\ Bound(rsv, "motor_speed") =>
             /\ Bound(rsv, "time_per_angle_step")
             /\ rsv.motor_speed[2] # 0

\* Both ways of having no readout time: a camera model without a table, and a
\* pixel format missing from the model's table.
C8_Witness ==
    /\ prog = "velocity" /\ pc = "done"
    /\ Bound(cft, "camera_model") /\ ~ReadoutKnown
    /\ \/ outcome = "NameError" /\ cft.camera_model = "Blackfly S BFS-PGE-161S7M"
       \/ outcome = "KeyError" /\ cft.camera_model = "Oryx ORX-10G-51S5M"
                               /\ cft.pixel_format = "Mono12p"

(***************************************************************************)
(* Properties of the blur scripts                                          *)
(***************************************************************************)
\* a < b, a <= b for fractions that are numbers
FLess(a, b) == a[1] * b[2] < b[1] * a[2]
FLeq(a, b) == a[1] * b[2] <= b[1] * a[2]

\* Trigger planning has decided: the step per frame is a positive number and
\* the frame count was taken.
ArcsPlanned ==
    /\ prog = "arcs" /\ pc \in {"triggers", "done"}
    /\ Bound(arc, "delta_theta")
    /\ arc.delta_theta[2] # 0 /\ arc.delta_theta[1] > 0

NoFramesRaised == pc = "done" /\ outcome = "ValueError: No frames fit in 180"

\* n_frames >= 1 trigger angles k * delta_theta are produced (once the script
\* is past line 50).
TriggersProduced ==
    /\ Bound(arc, "n_frames") /\ arc.n_frames >= 1
    /\ outcome # "ValueError: No frames fit in 180"
    /\ pc = "done" =>
          /\ outcome = "finished"
          /\ Len(arc.trigger_angles_deg) = arc.n_frames
          /\ \A k \in 1..arc.n_frames :
                FMul(arc.trigger_angles_deg[k], <<arc.delta_theta[2], 1>>)
                   = <<(k - 1) * arc.delta_theta[1], 1>>

\* C9 as stated: planning over 180 degrees fails whenever the angular step per
\* frame is greater than or equal to 180 degrees, and otherwise produces
\* n_frames >= 1 trigger angles.
C9_AsStated ==
    ArcsPlanned =>
       /\ FLeq(<<Sweep, 1>>, arc.delta_theta) => NoFramesRaised
       /\ FLess(arc.delta_theta, <<Sweep, 1>>) => TriggersProduced

\* C9 amended: for a positive angular step per frame, planning over 180
\* degrees fails (ValueError "No frames fit in 180") exactly when the step is
\* strictly greater than 180 degrees; a step of exactly 180 degrees fits one
\* frame, and every step <= 180 produces n_frames = floor(180/step) >= 1
\* trigger angles.
C9_FailsIffStepExceedsSweep ==
    ArcsPlanned =>
       /\ NoFramesRaised <=> FLess(<<Sweep, 1>>, arc.delta_theta)
       /\ FLeq(arc.delta_theta, <<Sweep, 1>>) =>
             /\ TriggersProduced
             /\ FLeq(<<arc.n_frames * arc.delta_theta[1], arc.delta_theta[2]>>,
                     <<Sweep, 1>>)
             /\ FLess(<<Sweep, 1>>,
                      <<(arc.n_frames + 1) * arc.delta_theta[1], arc.delta_theta[2]>>)

\* A step of exactly 180 degrees: one frame, triggered at 0.
C9_Witness ==
    /\ ArcsPlanned /\ pc = "done" /\ outcome = "finished"
    /\ arc.delta_theta = <<180, 1>>
    /\ arc.n_frames = 1
    /\ arc.trigger_angles_deg = << <<0, 1>> >>

\* set_blur / (2 * radius) > 1
BlurOutOfDomain ==
    /\ prog \in {"arcs", "tomoscan"}
    /\ arc.set_blur[1] > arc.set_blur[2] * arc.detector_x_size

\* C10 as stated: with max_blur_px / (2*radius) > 1 the blur model fails with
\* a GeometryDomainError before the arcsine is evaluated: no maximum angular
\* step, no maximum speed and no NaN is produced.
C10_DomainChecked ==
    BlurOutOfDomain =>
       /\ ~Bound(arc, "theta_exposure_time")
       /\ ~Bound(arc, "speeds")
       /\ pc = "done" => outcome = "GeometryDomainError"

(***************************************************************************)
(* Further properties of the frame time and the quantizer                  *)
(***************************************************************************)
FrameTimeReturned == prog = "velocity" /\ Bound(cft, "frame_time")

\* C11 as stated: the frame time returned is strictly greater than the
\* readout time, also when exposure * margin equals the readout time.
C11_StrictlyGreater ==
    FrameTimeReturned => cft.frame_time > cft.readout

\* C11 amended: the frame time returned is greater than or equal to the
\* readout time; it equals the readout time exactly when exposure * margin
\* equals the readout time, and is strictly greater in every other case.
C11_AtLeastReadout ==
    FrameTimeReturned =>
       /\ cft.frame_time >= cft.readout
       /\ cft.frame_time = cft.readout
             <=> cft.exposure * cft.readout_margin = 100 * cft.readout

\* Exposure 25 ms at margin 1.2 against a readout of 30 ms.
C11_Witness ==
    /\ FrameTimeReturned
    /\ cft.exposure = 2500 /\ cft.readout_margin = 120 /\ cft.readout = 3000
    /\ cft.frame_time = 3000
    /\ rsv.time_per_angle_step = 3000

\* raw_counts lies exactly halfway between two integers.
RawIsTie ==
    LET raw == rsv.raw_delta_encoder_counts
        fl == FloorDiv(raw[1], raw[2])
    IN  2 * (raw[1] - fl * raw[2]) = raw[2]

\* rounded_counts is a nearest integer of raw_counts.
RoundedIsNearest ==
    LET raw == rsv.raw_delta_encoder_counts
    IN  2 * Abs(raw[1] - rsv.delta_encoder_counts * raw[2]) <= raw[2]

\* The adjusted step is rounded_counts / counts_per_degree.
AdjustedStepFromRounded ==
    /\ Bound(rsv, "new_rotation_step")
    /\ rsv.new_rotation_step[1] * rsv.encoder_multiply[1]
          = rsv.delta_encoder_counts * rsv.encoder_multiply[2] * rsv.new_rotation_step[2]

\* C12 as stated: raw_counts is rounded to the nearest integer, a tie going to
\* the integer of larger magnitude (2.5 -> 3, 0.5 -> 1, -2.5 -> -3), and the
\* adjusted step is rounded_counts / counts_per_degree.
C12_TiesAwayFromZero ==
    RsvQuantized =>
       /\ RoundedIsNearest
       /\ RawIsTie =>
             /\ Abs(rsv.delta_encoder_counts) * rsv.raw_delta_encoder_counts[2]
                   > Abs(rsv.raw_delta_encoder_counts[1])
             /\ AdjustedStepFromRounded

\* C12 amended: raw_counts is rounded to the nearest integer, a tie going to
\* the even integer (2.5 -> 2, 0.5 -> 0, -2.5 -> -2, 1.5 -> 2), and the
\* adjusted step is rounded_counts / counts_per_degree.
C12_TiesToEven ==
    RsvQuantized =>
       /\ RoundedIsNearest
       /\ RawIsTie =>
             /\ rsv.delta_encoder_counts % 2 = 0
             /\ AdjustedStepFromRounded
       /\ Bound(rsv, "new_rotation_step") => AdjustedStepFromRounded

\* 0.25 degree at 3600 counts per rotation: raw_counts 2.5, rounded to 2, step
\* adjusted to 0.2 degree.
C12_Witness ==
    /\ RsvQuantized
    /\ Norm(rsv.raw_delta_encoder_counts) = <<5, 2>>
    /\ rsv.delta_encoder_counts = 2
    /\ Norm(rsv.new_rotation_step) = <<1, 5>>

(***************************************************************************)
(* The acquisition bracket of frame_rate()                                 *)
(***************************************************************************)
\* Positions of an operation in the log of PV operations.
Logged(op) == {i \in 1..Len(ioc.log) : ioc.log[i] = op}
WritesLogged == {i \in 1..Len(ioc.log) : ioc.log[i][1] = "put"}
FrDone == prog = "frame_rate" /\ pc = "done"
EarlyReturn ==
    /\ FrDone
    /\ \/ frl.epics_PVs = None
       \/ Bound(frl, "detector_sn") /\ frl.detector_sn \in {None, "Unknown"}

\* C13: frame_rate() never leaves the camera acquiring.  Every run returns;
\* a run that has written Acquire = 1 has written Acquire = 0 after it when
\* it returns, and the camera is then idle; the rate readback is sampled
\* after the write of 1 and before the write of 0; a run that returns early
\* (unsupported camera model, serial number None or 'Unknown') returns None
\* and has written neither ImageMode nor Acquire.
C13_AcquireBracketed ==
    prog = "frame_rate" =>
       /\ pc = "done" => outcome = "returned"
       /\ FrDone /\ Logged(<<"put", "Cam1Acquire", 1>>) # {} =>
             /\ \E k \in Logged(<<"put", "Cam1Acquire", 0>>) :
                   \A i \in Logged(<<"put", "Cam1Acquire", 1>>) : i < k
             /\ Logged(<<"get", "ArrayRate_RBV">>) # {}
             /\ ioc.Acquire = 0
       /\ \A j \in Logged(<<"get", "ArrayRate_RBV">>) :
             /\ \E i \in Logged(<<"put", "Cam1Acquire", 1>>) : i < j
             /\ \A k \in Logged(<<"put", "Cam1Acquire", 0>>) : j < k
       /\ EarlyReturn => frl["return"] = None /\ WritesLogged = {}

\* A full run on a connected camera that was acquiring: the whole bracket is
\* in the log, the rate is returned and the camera is idle.
C13_Witness ==
    /\ FrDone /\ outcome = "returned"
    /\ ioc.log = <<<<"get", "CamManufacturer_RBV">>, <<"get", "CamModel">>,
                   <<"get", "Cam1SerialNumber">>, <<"put", "Cam1ImageMode", 2>>,
                   <<"get", "Cam1ImageMode">>, <<"put", "Cam1Acquire", 1>>,
                   <<"get", "ArrayRate_RBV">>, <<"put", "Cam1Acquire", 0>>>>
    /\ frl["return"] = "16.02"
    /\ ioc.Acquire = 0 /\ ioc.ImageMode = Continuous

=============================================================================
